---- MODULE Spec2Model ----
(***************************************************************************)
(* Model of the Zaber stage control scripts zaber_t_omg.py (T-OMG rotary   *)
(* stage) and zaber_x_lsm025a.py (X-LSM025A linear stage).                 *)
(*                                                                         *)
(* The scripts keep no state between calls.  The state of the model is the *)
(* observable record of the most recent call: its inputs, the step count   *)
(* it computed, the bytearray it built, what it handed to the serial port, *)
(* what it printed, what it raised and what it returned.  Every action is  *)
(* one complete call of one function of one script.  Since no call reads   *)
(* anything an earlier call left behind, a behaviour holds a single call:  *)
(* a sequence of calls is a sequence of such behaviours.                   *)
(*                                                                         *)
(* Python integers are unbounded while the model checker's are 32 bits     *)
(* wide, so hex(data + (1 << 32)) is computed digit-wise from the two      *)
(* 16-bit halves of data (hex_plus_1shl32) instead of forming the sum.     *)
(***************************************************************************)
EXTENDS Integers, Sequences, FiniteSets, TLC

VARIABLES
    module,     \* "none", "tomg" (zaber_t_omg.py) or "xlsm" (zaber_x_lsm025a.py)
    op,         \* name of the function called last, "none" before any call
    device_id,  \* the device_id argument (0 for functions without one)
    arg,        \* theta in 1/10000 degree (tomg) or rel_pos in mm (xlsm)
    data,       \* {} or {s}: the local variable `data`, once assigned
    to_device,  \* the bytearray as far as it was built
    port,       \* "untried", "open" or "failed": outcome of serial.Serial(...)
    printed,    \* TRUE when "No device has been found ..." was printed
    wire,       \* sequence of the byte strings handed to serialZABER.write
    closed,     \* TRUE when serialZABER.close() was called
    raised,     \* "none" or the name of the exception that left the call
    reply,      \* bytes the device sends back before the read timeout
    ret         \* return value of get_current_position (<<>> otherwise)

vars == <<module, op, device_id, arg, data, to_device, port, printed, wire,
          closed, raised, reply, ret>>

----------------------------------------------------------------------------
(* Bounds of the model *)

MaxDeviceId == 4
MaxRelPos == 3200
MaxReplyLen == 6

(* Program constants *)

CmdHome == 1
CmdRenumber == 2
CmdMoveRelative == 21
CmdResetSettings == 36
CmdGetPosition == 60
LineFeed == 10
\* microstep = 0.047625 mm, so 1 / microstep = 1000000 / 47625 = 8000 / 381
MicrostepNum == 8000
MicrostepDen == 381
DeviceIds == 0..MaxDeviceId

\* rel_pos values: a contiguous range around zero that crosses the 16-bit
\* step boundary (3122 mm -> 65553 steps), and a few 5-digit-hex step counts
RelPosSet == (-MaxRelPos..MaxRelPos) \cup {-268000, -49939, 49939, 268000}

\* positive sample angles, in 1/10000 degree; negatives by symmetry
ThetaPos == {1, 2, 50, 10000, 75000, 80000, 450000, 850000, 1000000, 1799900}
ThetaSet == {0} \cup ThetaPos \cup {-t : t \in ThetaPos}

ReplyBytes == {0, 10, 60, 255}

----------------------------------------------------------------------------
(* Python string and integer helpers *)

Min(a, b) == IF a < b THEN a ELSE b
Max(a, b) == IF a > b THEN a ELSE b

HexDigits == <<"0", "1", "2", "3", "4", "5", "6", "7",
               "8", "9", "a", "b", "c", "d", "e", "f">>

IsHexDigit(c) == \E i \in 1..16 : HexDigits[i] = c
DigitVal(c) == (CHOOSE i \in 1..16 : HexDigits[i] = c) - 1

\* digits of a natural number, most significant first, no leading zeros
RECURSIVE HexNat(_)
HexNat(n) ==
    IF n < 16 THEN <<HexDigits[n + 1]>>
    ELSE HexNat(n \div 16) \o <<HexDigits[(n % 16) + 1]>>

\* hex(n): '0x..' or '-0x..'
hex(n) ==
    IF n >= 0 THEN <<"0", "x">> \o HexNat(n)
    ELSE <<"-", "0", "x">> \o HexNat(-n)

\* s zero-filled on the left to width w
RECURSIVE ZFill(_, _)
ZFill(s, w) == IF Len(s) >= w THEN s ELSE ZFill(<<"0">> \o s, w)

\* hex(n + (1 << 32)) for -2^31 <= n < 2^31, without forming the sum:
\* for n >= 0 it is '0x1' followed by the 8 digits of n; for n < 0 the sum
\* is hi * 2^16 + lo with lo = n mod 2^16 and 2^15 <= hi < 2^16
hex_plus_1shl32(n) ==
    IF n >= 0 THEN <<"0", "x", "1">> \o ZFill(HexNat(n), 8)
    ELSE LET lo == n % 65536
             hi == 65536 + ((n - lo) \div 65536)
         IN <<"0", "x">> \o HexNat(hi) \o ZFill(HexNat(lo), 4)

\* s[a:b] for 0 <= a <= b
Slice(s, a, b) ==
    IF a >= Min(b, Len(s)) THEN <<>> ELSE SubSeq(s, a + 1, Min(b, Len(s)))

\* s[a:] for a >= 0
SliceFrom(s, a) == Slice(s, a, Len(s))

\* s[-4:]
Last4(s) == SubSeq(s, Max(1, Len(s) - 3), Len(s))

\* value of a string of hex digits
RECURSIVE HexVal(_)
HexVal(s) ==
    IF s = <<>> THEN 0
    ELSE 16 * HexVal(SubSeq(s, 1, Len(s) - 1)) + DigitVal(s[Len(s)])

\* int(s, 16) followed by bytearray.append, for the strings of at most two
\* characters the scripts pass: the byte appended, or -1 when either raises
\* ValueError ('' , 'x5', '0x', '-', '-5' -> error; '-0' -> 0)
int16(s) ==
    IF s = <<>> THEN -1
    ELSE IF \A i \in 1..Len(s) : IsHexDigit(s[i]) THEN HexVal(s)
    ELSE IF s = <<"-", "0">> THEN 0
    ELSE -1

\* int(x / y) for integers x and y > 0: the quotient truncated towards zero
TruncDiv(x, y) == IF x >= 0 THEN x \div y ELSE -((-x) \div y)

----------------------------------------------------------------------------
(* Building the 6-byte word *)

\* first byte: the if/elif/else chain on device_id
device_byte(d) ==
    IF d = 0 THEN 0
    ELSE IF d = 1 THEN 1
    ELSE IF d = 2 THEN 2
    ELSE 3

\* the four data bytes of the commands that ignore the data
zero_data == <<0, 0, 0, 0>>

send_home_frame(d) == <<device_byte(d), CmdHome>> \o zero_data

\* variant: reset_settings carrying the command byte of send_home
reset_settings_frame_mut == <<0, CmdHome>> \o zero_data
\* reset_settings: broadcast, command 36, data ignored
reset_settings_frame == <<0, CmdResetSettings>> \o zero_data

renumber_all_frame == <<0, CmdRenumber>> \o zero_data

get_current_position_frame(d) == <<device_byte(d), CmdGetPosition>> \o zero_data

\* variant: one of the two upper-byte appends left out
pos_fill_mut == <<0>>
\* upper two data bytes appended on the positive and on the other branch
pos_fill == <<0, 0>>
neg_fill == <<255, 255>>

\* to_device after appending int(s1, 16), int(s2, 16) and the fill bytes, in
\* this order, stopping at the first ValueError
append_data(head, s1, s2, fill) ==
    IF int16(s1) = -1 THEN [to_device |-> head, raised |-> "ValueError"]
    ELSE IF int16(s2) = -1
        THEN [to_device |-> head \o <<int16(s1)>>, raised |-> "ValueError"]
    ELSE [to_device |-> head \o <<int16(s1), int16(s2)>> \o fill,
          raised |-> "none"]

(* zaber_t_omg.move_to_relative *)

\* int(np.tan(theta * deg_to_rad) * A * R / L) in IEEE double arithmetic for
\* the positive sample angles t (in 1/10000 degree), A = 11825e-6 (device 1)
\* and A = 23650e-6 (device 2), R = 64, L = 1.524e-6
tan_steps_pos(d, t) ==
    CASE t = 1       -> IF d = 1 THEN 0 ELSE 1
      [] t = 2       -> IF d = 1 THEN 1 ELSE 3
      [] t = 50      -> IF d = 1 THEN 43 ELSE 86
      [] t = 10000   -> IF d = 1 THEN 8667 ELSE 17335
      [] t = 75000   -> IF d = 1 THEN 65377 ELSE 130754
      [] t = 80000   -> IF d = 1 THEN 69790 ELSE 139581
      [] t = 450000  -> IF d = 1 THEN 496587 ELSE 993175
      [] t = 850000  -> IF d = 1 THEN 5676025 ELSE 11352051
      [] t = 1000000 -> IF d = 1 THEN -2816290 ELSE -5632580
      [] t = 1799900 -> IF d = 1 THEN -86 ELSE -173

\* tan is odd and int() truncates towards zero, so the value at -t is the
\* negated value at t
tan_steps(d, t) ==
    IF t = 0 THEN 0
    ELSE IF t > 0 THEN tan_steps_pos(d, t)
    ELSE -tan_steps_pos(d, -t)

\* "Byte length control": if len 1, if len 2, elif len 3
tomg_pad(h) ==
    LET h1 == IF Len(h) = 1 THEN <<"0", "0", "0">> \o h ELSE h
    IN IF Len(h1) = 2 THEN <<"0", "0">> \o h1
       ELSE IF Len(h1) = 3 THEN <<"0">> \o h1
       ELSE h1

\* the word built by zaber_t_omg.move_to_relative up to the port being opened:
\* [data, to_device, raised]
tomg_encode(d, t) ==
    LET head == <<device_byte(d), CmdMoveRelative>>
    IN IF d \notin {1, 2}
       \* A is bound only for device_id 1 and 2
       THEN [data |-> {}, to_device |-> head, raised |-> "UnboundLocalError"]
       ELSE LET s == tan_steps(d, t)
                ph == tomg_pad(SliceFrom(hex(s), 2))
                nh == Last4(hex_plus_1shl32(s))
                r == IF t > 0
                     THEN append_data(head, Slice(ph, 2, 4), Slice(ph, 0, 2), pos_fill)
                     ELSE append_data(head, Slice(nh, 2, 4), Slice(nh, 0, 2), neg_fill)
            IN [data |-> {s}, to_device |-> r.to_device, raised |-> r.raised]

(* zaber_x_lsm025a.move_to_relative *)

\* variant: floor division (rel_pos // microstep) instead of int(rel_pos / microstep)
steps_from_linear_mut(rel_pos) == (rel_pos * MicrostepNum) \div MicrostepDen
\* int(rel_pos / microstep); the double quotient truncates to the same
\* integer as the exact quotient rel_pos * 8000 / 381 for |rel_pos| <= 300000
steps_from_linear(rel_pos) == TruncDiv(rel_pos * MicrostepNum, MicrostepDen)

\* if len(data_hex) == 3: data_hex = '0' + data_hex
xlsm_pad(h) == IF Len(h) = 3 THEN <<"0">> \o h ELSE h

xlsm_encode(d, rel_pos) ==
    LET head == <<device_byte(d), CmdMoveRelative>>
        s == steps_from_linear(rel_pos)
        ph == xlsm_pad(SliceFrom(hex(s), 2))
        nh == Last4(hex_plus_1shl32(s))
        r == IF rel_pos > 0
             THEN append_data(head, Slice(ph, 0, 2), Slice(ph, 2, 4), pos_fill)
             ELSE append_data(head, Slice(nh, 0, 2), Slice(nh, 2, 4), neg_fill)
    IN [data |-> {s}, to_device |-> r.to_device, raised |-> r.raised]

\* a word that was built without computing a step count
plain(frame) == [data |-> {}, to_device |-> frame, raised |-> "none"]

----------------------------------------------------------------------------
(* The serial port *)

\* all byte strings the device may have sent when the read returns
Replies == UNION {[1..k -> ReplyBytes] : k \in 0..MaxReplyLen}

\* serialZABER.readline(): the bytes up to and including the first line feed,
\* or everything received when the timeout elapses without one
readline(rep) ==
    IF \E i \in 1..Len(rep) : rep[i] = LineFeed
    THEN SubSeq(rep, 1, CHOOSE i \in 1..Len(rep) :
                            /\ rep[i] = LineFeed
                            /\ \A j \in 1..(i - 1) : rep[j] # LineFeed)
    ELSE rep

\* One complete call: enc is the word as built, ok says whether
\* serial.Serial(...) succeeds, doClose whether the function calls close(),
\* doRead whether it calls readline(), rep what the device sends back.
\* try: serialZABER = serial.Serial(...) / except SerialException: print(...)
\* binds no name on failure, so the write that follows raises
\* UnboundLocalError.
Call(m, o, d, a, enc, ok, doClose, doRead, rep) ==
    /\ module' = m
    /\ op' = o
    /\ device_id' = d
    /\ arg' = a
    /\ data' = enc.data
    /\ to_device' = enc.to_device
    /\ IF enc.raised # "none"
       THEN /\ port' = "untried"
            /\ printed' = FALSE
            /\ wire' = <<>>
            /\ closed' = FALSE
            /\ raised' = enc.raised
            /\ reply' = <<>>
            /\ ret' = <<>>
       ELSE IF ~ok
       THEN /\ port' = "failed"
            /\ printed' = TRUE
            /\ wire' = <<>>
            /\ closed' = FALSE
            /\ raised' = "UnboundLocalError"
            /\ reply' = <<>>
            /\ ret' = <<>>
       ELSE /\ port' = "open"
            /\ printed' = FALSE
            /\ wire' = <<enc.to_device>>
            /\ closed' = doClose
            /\ raised' = "none"
            /\ reply' = IF doRead THEN rep ELSE <<>>
            /\ ret' = IF doRead THEN readline(rep) ELSE <<>>

----------------------------------------------------------------------------
(* The functions of the two scripts *)

tomg_send_home ==
    /\ op = "none"
    /\ \E d \in DeviceIds, ok \in BOOLEAN :
        Call("tomg", "send_home", d, 0, plain(send_home_frame(d)),
             ok, FALSE, FALSE, <<>>)

tomg_reset_settings ==
    /\ op = "none"
    /\ \E ok \in BOOLEAN :
        Call("tomg", "reset_settings", 0, 0, plain(reset_settings_frame),
             ok, FALSE, FALSE, <<>>)

tomg_move_to_relative ==
    /\ op = "none"
    /\ \E d \in DeviceIds, t \in ThetaSet, ok \in BOOLEAN :
        Call("tomg", "move_to_relative", d, t, tomg_encode(d, t),
             ok, FALSE, FALSE, <<>>)

tomg_get_current_position ==
    /\ op = "none"
    /\ \E d \in DeviceIds, ok \in BOOLEAN, rep \in Replies :
        Call("tomg", "get_current_position", d, 0,
             plain(get_current_position_frame(d)), ok, FALSE, TRUE, rep)

xlsm_send_home ==
    /\ op = "none"
    /\ \E d \in DeviceIds, ok \in BOOLEAN :
        Call("xlsm", "send_home", d, 0, plain(send_home_frame(d)),
             ok, TRUE, FALSE, <<>>)

xlsm_renumber_all ==
    /\ op = "none"
    /\ \E ok \in BOOLEAN :
        Call("xlsm", "renumber_all", 0, 0, plain(renumber_all_frame),
             ok, TRUE, FALSE, <<>>)

xlsm_move_to_relative ==
    /\ op = "none"
    /\ \E d \in DeviceIds, rel_pos \in RelPosSet, ok \in BOOLEAN :
        Call("xlsm", "move_to_relative", d, rel_pos, xlsm_encode(d, rel_pos),
             ok, TRUE, FALSE, <<>>)

Init ==
    /\ module = "none"
    /\ op = "none"
    /\ device_id = 0
    /\ arg = 0
    /\ data = {}
    /\ to_device = <<>>
    /\ port = "untried"
    /\ printed = FALSE
    /\ wire = <<>>
    /\ closed = FALSE
    /\ raised = "none"
    /\ reply = <<>>
    /\ ret = <<>>

Next ==
    \/ tomg_send_home
    \/ tomg_reset_settings
    \/ tomg_move_to_relative
    \/ tomg_get_current_position
    \/ xlsm_send_home
    \/ xlsm_renumber_all
    \/ xlsm_move_to_relative

Spec == Init /\ [][Next]_vars

----------------------------------------------------------------------------
(* Vocabulary of the properties *)

Abs(n) == IF n < 0 THEN -n ELSE n

\* the step count of the call, once `data` is assigned
Step == CHOOSE s \in data : TRUE

MoveCalled(m) == module = m /\ op = "move_to_relative"

\* the call handed exactly one word to the port
Wrote == Len(wire) = 1

\* the four data bytes of the word written
WrittenData == SubSeq(wire[1], 3, 6)

\* 32-bit two's-complement little-endian encoding of s, -2^31 <= s < 2^31
le32(s) == <<s % 256, (s \div 256) % 256, (s \div 65536) % 256,
             (s \div 16777216) % 256>>

\* signed 32-bit little-endian value of four bytes
decode_le32(b) ==
    b[1] + 256 * b[2] + 65536 * b[3]
    + 16777216 * (IF b[4] >= 128 THEN b[4] - 256 ELSE b[4])

\* nearest integer to x / y for y > 0 (no ties occur for y = 381)
RoundDiv(x, y) ==
    LET q == Abs(x) \div y
        r == Abs(x) % y
        n == IF 2 * r >= y THEN q + 1 ELSE q
    IN IF x >= 0 THEN n ELSE -n

\* A call that raised before opening the port (port = "untried") runs the
\* same way whether or not the port would open, so port # "failed" describes
\* the calls made with a port that opens.
PortOpens == port # "failed"

----------------------------------------------------------------------------
(* Properties *)

\* C1: in both scripts, the four data bytes move_to_relative writes for a
\* step count s decode, as a signed 32-bit little-endian integer, to s.
C1_RoundTrip ==
    (op = "move_to_relative" /\ Wrote /\ data # {})
        => decode_le32(WrittenData) = Step

\* C2: for every device_id, send_home, move_to_relative and
\* get_current_position called with a port that opens write a word whose
\* first byte is device_id.
C2_FirstByteIsDeviceId ==
    (op \in {"send_home", "move_to_relative", "get_current_position"}
     /\ PortOpens)
        => (Wrote /\ wire[1][1] = device_id)

\* C3: reset_settings writes exactly 00 24 00 00 00 00, renumber_all exactly
\* 00 02 00 00 00 00 and send_home(0) exactly 00 01 00 00 00 00 (in both
\* scripts) whenever the port opens, and nothing else is ever written by them.
C3_FixedFrames ==
    LET fixed(f) == /\ port = "open" => wire = <<f>>
                    /\ wire # <<>> => wire = <<f>>
    IN /\ op = "reset_settings" => fixed(<<0, 36, 0, 0, 0, 0>>)
       /\ op = "renumber_all" => fixed(<<0, 2, 0, 0, 0, 0>>)
       /\ (op = "send_home" /\ device_id = 0) => fixed(<<0, 1, 0, 0, 0, 0>>)

\* C3 witness: a fixed word was written by each kind of call; this one is
\* reset_settings with its word on the wire.
C3_Witness ==
    op = "reset_settings" /\ port = "open" /\ wire = <<<<0, 36, 0, 0, 0, 0>>>>

\* C4: every byte string handed to the serial write is exactly 6 bytes long,
\* and its data bytes are zero for the commands that ignore the data.
C4_FrameLength ==
    \A i \in 1..Len(wire) :
        /\ Len(wire[i]) = 6
        /\ \A j \in 1..Len(wire[i]) : wire[i][j] \in 0..255
        /\ op \in {"send_home", "reset_settings", "renumber_all",
                   "get_current_position"}
            => SubSeq(wire[i], 3, 6) = <<0, 0, 0, 0>>

\* C4 witness: a move whose step count needs more than 16 bits was written.
C4_Witness ==
    op = "move_to_relative" /\ Wrote /\ data # {} /\ Abs(Step) >= 65536

\* C5: in the X-LSM025A move_to_relative, for 0 < |s| < 2^16 the first data
\* byte written is s & 0xFF and the second is (s >> 8) & 0xFF.
C5_LsbFirst ==
    (MoveCalled("xlsm") /\ Wrote /\ Abs(Step) > 0 /\ Abs(Step) < 65536)
        => /\ wire[1][3] = Step % 256
           /\ wire[1][4] = (Step \div 256) % 256

\* C6: the X-LSM025A move_to_relative, for every non-zero rel_pos whose step
\* count is below 2^16 in magnitude and a port that opens, completes without
\* raising and writes exactly one word.
C6_BothSigns ==
    (MoveCalled("xlsm") /\ arg # 0 /\ Abs(Step) < 65536 /\ PortOpens)
        => (raised = "none" /\ Wrote)

\* C7: when the port cannot be opened the call fails with the port error
\* itself, which is not printed and discarded.
C7_OpenFailurePropagates ==
    port = "failed"
        => (raised \in {"SerialException", "PortUnavailableError"} /\ ~printed)

\* C8: get_current_position never returns normally with fewer than 6 bytes.
C8_NoTruncatedReply ==
    (op = "get_current_position" /\ raised = "none") => Len(ret) >= 6

\* C9 as stated: the step count the X-LSM025A move_to_relative encodes is
\* the nearest integer to rel_pos * 1000000 / 47625.
C9_RoundToNearest ==
    (MoveCalled("xlsm") /\ Wrote)
        => Step = RoundDiv(arg * MicrostepNum, MicrostepDen)

\* C9 amended: the step count the X-LSM025A move_to_relative computes is
\* rel_pos * 1000000 / 47625 truncated towards zero: it is the integer s with
\* s * 381 <= rel_pos * 8000 < (s + 1) * 381 for rel_pos >= 0 and
\* (s - 1) * 381 < rel_pos * 8000 <= s * 381 for rel_pos < 0.
C9_TruncTowardsZero ==
    MoveCalled("xlsm")
        => /\ data # {}
           /\ IF arg >= 0
              THEN /\ Step * 381 <= arg * 8000
                   /\ arg * 8000 < (Step + 1) * 381
              ELSE /\ (Step - 1) * 381 < arg * 8000
                   /\ arg * 8000 <= Step * 381

\* C9 witness: a word was written for a negative rel_pos whose truncated step
\* count differs from the rounded one.
C9_Witness ==
    /\ MoveCalled("xlsm") /\ Wrote /\ arg < 0
    /\ Step # RoundDiv(arg * MicrostepNum, MicrostepDen)

\* C10: in the T-OMG move_to_relative, for every theta whose step count s has
\* |s| < 2^16 (theta = 0 and step counts truncating to 0 included), the four
\* data bytes written are the 32-bit two's-complement little-endian encoding
\* of s.
C10_LegacyExact ==
    (MoveCalled("tomg") /\ Wrote /\ Abs(Step) < 65536)
        => WrittenData = le32(Step)

====
